---- MODULE Spec2Model ----
(***************************************************************************)
(* A model of sqlite_utils_ask.py: the query synthesis loop (_shared_ask), *)
(* the extractor (extract_sql_query) and the example-value collection      *)
(* (get_example_columns).                                                  *)
(*                                                                         *)
(* Text is a sequence of one-character strings, so that the regular        *)
(* expression and str.strip() work on characters as they do in Python.     *)
(***************************************************************************)
EXTENDS Integers, Sequences, FiniteSets, TLC

VARIABLES
    \* ---- _shared_ask
    pc,         \* position in _shared_ask
    json_,      \* the --json option
    response,   \* text of the model's first response ("response")
    response2,  \* text of the reply to the reformat follow-up ("response2")
    sql,        \* the candidate query ("sql")
    attempt,    \* the attempt counter ("attempt")
    ok,         \* the success flag ("ok")
    ex,         \* the exception caught at L181, awaiting the corrective prompt
    results,    \* the rows of the successful execution ("results")
    output,     \* what click.echo wrote to standard output, block by block
    error,      \* the ClickException the run raised, if any
    trace,      \* the calls made to the model and to the database, in order
    \* ---- extract_sql_query on its own
    text,       \* the argument
    extracted,  \* the value returned
    \* ---- get_example_columns
    epc,        \* position in get_example_columns
    table,      \* the rows of the table, run-length encoded
    column_types, \* db[table].columns_dict, in column order
    introspectable, \* FALSE when columns_dict raises sqlite3.OperationalError
    col,        \* index of the column the for loop is at
    examples    \* the dictionary being built ("examples")

vars == <<pc, json_, response, response2, sql, attempt, ok, ex, results,
          output, error, trace, text, extracted,
          epc, table, column_types, introspectable, col, examples>>

askVars == <<pc, json_, response, response2, sql, attempt, ok, ex, results,
             output, error, trace>>
extractVars == <<text, extracted>>
exampleVars == <<epc, table, column_types, introspectable, col, examples>>

----------------------------------------------------------------------------
(* Text *)

\* Python's None, as a value comparable with text: no character of a text
\* is the string "None".
None == <<"None">>

NL == "\n"
\* the grave accent (U+0060), which a TLA+ string cannot hold
BT == "BT"
Fence == <<BT, BT, BT>>

\* the literal parts of _pattern (L203): three grave accents, sql, newline;
\* the lazy group; newline, three grave accents
pattern_open == Fence \o <<"s", "q", "l", NL>>
pattern_close == <<NL>> \o Fence

\* the literal lit matches t at position i
LitAt(t, i, lit) ==
    /\ i >= 1
    /\ i + Len(lit) - 1 <= Len(t)
    /\ \A k \in 1..Len(lit) : t[i + k - 1] = lit[k]

\* a greedy group, (.*), would run to the last closing literal
GreedyClose(t, j) ==
    LET Q == {q \in j..Len(t) : LitAt(t, q, pattern_close)}
    IN  IF Q = {} THEN 0 ELSE CHOOSE q \in Q : \A r \in Q : r <= q

\* the lazy group and the closing literal from position j: the group grows
\* one character at a time (re.DOTALL: any character, newline included)
\* until the closing literal matches; 0 when it never does.
RECURSIVE LazyClose(_, _)
LazyClose(t, j) ==
    IF j > Len(t) THEN 0
    ELSE IF LitAt(t, j, pattern_close) THEN j
    ELSE LazyClose(t, j + 1)

\* the pattern tried at start position i: group(1), or None
MatchAt(t, i) ==
    IF LitAt(t, i, pattern_open)
    THEN LET j == LazyClose(t, i + Len(pattern_open))
         IN  IF j = 0 THEN None
             ELSE SubSeq(t, i + Len(pattern_open), j - 1)
    ELSE None

\* re.search: the start positions are tried from the left
RECURSIVE re_search(_, _)
re_search(t, i) ==
    IF i > Len(t) THEN None
    ELSE IF MatchAt(t, i) # None THEN MatchAt(t, i)
    ELSE re_search(t, i + 1)

IsSpace(c) == c \in {" ", NL, "\t", "\r"}

RECURSIVE lstrip(_)
lstrip(s) ==
    IF s = <<>> THEN s
    ELSE IF IsSpace(Head(s)) THEN lstrip(Tail(s))
    ELSE s

RECURSIVE rstrip(_)
rstrip(s) ==
    IF s = <<>> THEN s
    ELSE IF IsSpace(s[Len(s)]) THEN rstrip(SubSeq(s, 1, Len(s) - 1))
    ELSE s

\* str.strip()
strip(s) == rstrip(lstrip(s))

extract_sql_query(t) ==
    LET m == re_search(t, 1)
    IN  IF m # None THEN strip(m) ELSE None

\* Python truthiness of a str-or-None ("if not sql")
Truthy(s) == s # None /\ s # <<>>

----------------------------------------------------------------------------
(* extract_sql_query on its own: every text of up to MaxTokens tokens *)

MaxTokens == 7

\* the fence, the tag (also the only non-blank content), and the two blanks
Tokens == {Fence, <<"s", "q", "l">>, <<NL>>, <<" ">>}

RECURSIVE TextsUpTo(_)
TextsUpTo(n) ==
    IF n = 0 THEN {<<>>}
    ELSE LET prev == TextsUpTo(n - 1)
         IN  prev \cup {t \o tok : t \in prev, tok \in Tokens}

Unset == <<"Unset">>

InitExtract ==
    /\ text \in TextsUpTo(MaxTokens)
    /\ extracted = Unset
    /\ pc = "idle" /\ json_ = FALSE /\ response = None /\ response2 = None
    /\ sql = None /\ attempt = 0 /\ ok = FALSE /\ ex = None
    /\ results = None /\ output = <<>> /\ error = None /\ trace = <<>>
    /\ epc = "idle" /\ table = <<>> /\ column_types = <<>>
    /\ introspectable = TRUE /\ col = 0 /\ examples = <<>>

CallExtract ==
    /\ extracted = Unset
    /\ extracted' = extract_sql_query(text)
    /\ UNCHANGED <<text, askVars, exampleVars>>

NextExtract == CallExtract

SpecExtract == InitExtract /\ [][NextExtract]_vars

\* A fenced block tagged sql: the opening literal at p and, at or after its
\* end, the closing literal at q.
IsBlock(t, p, q) ==
    /\ LitAt(t, p, pattern_open)
    /\ q >= p + Len(pattern_open)
    /\ LitAt(t, q, pattern_close)

HasBlock(t) == \E p \in 1..Len(t), q \in 1..Len(t) : IsBlock(t, p, q)

\* r is s without its leading and trailing whitespace
IsTrimOf(r, s) ==
    \E i \in 0..Len(s), j \in 0..Len(s) :
        /\ i + j <= Len(s)
        /\ \A k \in 1..i : IsSpace(s[k])
        /\ \A k \in (Len(s) - j + 1)..Len(s) : IsSpace(s[k])
        /\ r = SubSeq(s, i + 1, Len(s) - j)
        /\ r # <<>> => ~IsSpace(r[1]) /\ ~IsSpace(r[Len(r)])
        /\ r = <<>> => i + j = Len(s)

----------------------------------------------------------------------------
(* _shared_ask: one question                                              *)
(*                                                                         *)
(* The --verbose echoes (L143-147, L149-150, L154-158, L162-163, L173-176, *)
(* L182-183, L185-186) go to standard error and change nothing below; they *)
(* are left out. The model and the database are the environment: a reply   *)
(* is any of Replies, and db.query either returns rows or raises.          *)

\* "Try this up to three times": while attempt < 3
MaxAttempts == 3

\* A fenced sql block around q, as a model writes it
Block(q) == pattern_open \o q \o pattern_close

\* What the model may reply to any prompt: prose without a block, a block,
\* prose and a block whose query is surrounded by blanks, a block with
\* nothing in it, and two blocks.
Replies ==
    { <<"n", "o">>,
      Block(<<"a">>),
      <<"o", "k", NL>> \o Block(<<" ", "b", " ">>),
      Block(<<>>),
      Block(<<"b">>) \o <<NL>> \o Block(<<"a">>) }

\* str(ex) of what db.query raises: sqlite3 refuses None with a TypeError;
\* any text may be refused by the database with one of its own errors.
TypeErrorText == <<"T">>
DbErrors == {<<"E", "1">>, <<"E", "2">>}
ErrorsFor(s) == IF s = None THEN {TypeErrorText} ELSE DbErrors

\* list(db.query(sql)) of the n-th call: the rows that call produced
NoRows == [call |-> 0, of |-> None]
RowsOf(n, s) == [call |-> n, of |-> s]

\* One call to a collaborator. A prompt: which prompt, the text it carries
\* (the error text of a corrective prompt), the reply. A query: the
\* candidate executed, whether it succeeded, the error text or the rows.
PromptEvent(w, carried, reply) ==
    [kind |-> "prompt", which |-> w, arg |-> carried, out |-> reply,
     ok |-> TRUE, rows |-> NoRows]
QueryOk(s, r) ==
    [kind |-> "query", which |-> "db", arg |-> s, out |-> None,
     ok |-> TRUE, rows |-> r]
QueryRaised(s, e) ==
    [kind |-> "query", which |-> "db", arg |-> s, out |-> e,
     ok |-> FALSE, rows |-> NoRows]

QueryIdx == {i \in 1..Len(trace) : trace[i].kind = "query"}
NumQueries == Cardinality(QueryIdx)

\* click.ClickException
NoError == [kind |-> "none", text |-> None, attempts |-> 0]
FailedToGenerateSecond(resp, resp2) ==
    [kind |-> "Failed to generate a response", text |-> resp2, attempts |-> 0]
\* L166-168: "Failed to generate a response:\n\n" + response.text()
FailedToGenerate(resp, resp2) ==
    [kind |-> "Failed to generate a response", text |-> resp, attempts |-> 0]
FailedAfterNext(n) ==
    [kind |-> "Failed after attempts", text |-> None, attempts |-> n + 1]
\* L200: f"Failed after {attempt} attempts"
FailedAfter(n) ==
    [kind |-> "Failed after attempts", text |-> None, attempts |-> n]

\* L152 and L165: if not sql
NeedsReformatInverted(s) == Truthy(s)
NeedsReformat(s) == ~Truthy(s)

\* L172: while attempt < 3
LoopCondInclusive(a) == a <= MaxAttempts
LoopCond(a) == a < MaxAttempts

\* L187: sql = extract_sql_query(response3.text())
NextCandidateKeepStale(old, reply) ==
    IF extract_sql_query(reply) = None THEN old ELSE extract_sql_query(reply)
NextCandidate(old, reply) == extract_sql_query(reply)

\* L190-198: the blocks echoed to standard output on success
EmitResultsOnly(j, s, res) ==
    IF j THEN <<[fmt |-> "json", sql |-> None, results |-> res]>>
    ELSE <<[fmt |-> "rows", sql |-> None, results |-> res]>>
Emit(j, s, res) ==
    IF j
    THEN <<[fmt |-> "json", sql |-> s, results |-> res]>>
    ELSE <<[fmt |-> "text", sql |-> strip(s) \o <<NL>>, results |-> NoRows],
           [fmt |-> "rows", sql |-> None, results |-> res]>>

\* L190, L199-200: the else branch raises
FinalErrorAlways(k, a) == FailedAfter(a)
FinalError(k, a) == IF k THEN NoError ELSE FailedAfter(a)

InitAsk ==
    /\ pc = "start"
    /\ json_ \in BOOLEAN
    /\ response = None /\ response2 = None /\ sql = None
    /\ attempt = 0 /\ ok = FALSE /\ ex = None
    /\ results = NoRows /\ output = <<>> /\ error = NoError /\ trace = <<>>
    /\ text = <<>> /\ extracted = Unset
    /\ epc = "idle" /\ table = <<>> /\ column_types = <<>>
    /\ introspectable = TRUE /\ col = 0 /\ examples = <<>>

\* L148-152: the built prompt is sent, the query extracted from the reply
FirstPrompt ==
    /\ pc = "start"
    /\ \E r \in Replies :
         /\ response' = r
         /\ sql' = extract_sql_query(r)
         /\ trace' = Append(trace, PromptEvent("initial", None, r))
         /\ pc' = IF NeedsReformat(extract_sql_query(r))
                  THEN "reformat" ELSE "execute"
    /\ UNCHANGED <<json_, response2, attempt, ok, ex, results, output, error>>
    /\ UNCHANGED <<extractVars, exampleVars>>

\* L152-168: "Try one more time"
ReformatPrompt ==
    /\ pc = "reformat"
    /\ \E r \in Replies :
         /\ response2' = r
         /\ sql' = extract_sql_query(r)
         /\ trace' = Append(trace, PromptEvent("reformat", None, r))
         /\ IF NeedsReformat(extract_sql_query(r))
            THEN /\ error' = FailedToGenerate(response, r)
                 /\ pc' = "done"
            ELSE /\ error' = error
                 /\ pc' = "execute"
    /\ UNCHANGED <<json_, response, attempt, ok, ex, results, output>>
    /\ UNCHANGED <<extractVars, exampleVars>>

\* L172-183: one pass of the loop body up to the except clause
Execute ==
    /\ pc = "execute"
    /\ \/ /\ sql # None
          /\ results' = RowsOf(NumQueries + 1, sql)
          /\ ok' = TRUE
          /\ trace' = Append(trace, QueryOk(sql, RowsOf(NumQueries + 1, sql)))
          /\ pc' = "finish"
          /\ ex' = ex
       \/ \E e \in ErrorsFor(sql) :
            /\ ex' = e
            /\ trace' = Append(trace, QueryRaised(sql, e))
            /\ pc' = "correct"
            /\ UNCHANGED <<results, ok>>
    /\ UNCHANGED <<json_, response, response2, sql, attempt, output, error>>
    /\ UNCHANGED <<extractVars, exampleVars>>

\* L184-188 and the loop test at L172
Correct ==
    /\ pc = "correct"
    /\ \E r \in Replies :
         /\ trace' = Append(trace, PromptEvent("corrective", ex, r))
         /\ sql' = NextCandidate(sql, r)
    /\ attempt' = attempt + 1
    /\ pc' = IF LoopCond(attempt + 1) THEN "execute" ELSE "finish"
    /\ UNCHANGED <<json_, response, response2, ok, ex, results, output, error>>
    /\ UNCHANGED <<extractVars, exampleVars>>

\* L190-200
Finish ==
    /\ pc = "finish"
    /\ output' = IF ok THEN Emit(json_, sql, results) ELSE <<>>
    /\ error' = FinalError(ok, attempt)
    /\ pc' = "done"
    /\ UNCHANGED <<json_, response, response2, sql, attempt, ok, ex, results,
                   trace>>
    /\ UNCHANGED <<extractVars, exampleVars>>

Next == FirstPrompt \/ ReformatPrompt \/ Execute \/ Correct \/ Finish

Spec == InitAsk /\ [][Next]_vars

\* Every call to the model and to the database returns, and the
\* interpreter runs the next statement.
FairSpec == Spec /\ WF_vars(Next)

----------------------------------------------------------------------------
(* Properties of _shared_ask *)

PromptIdx(w) ==
    {i \in 1..Len(trace) : trace[i].kind = "prompt" /\ trace[i].which = w}
FailedIdx == {i \in QueryIdx : ~trace[i].ok}
Ended == pc = "done"
Succeeded == Ended /\ error = NoError

\* the query texts and the result sets written to standard output; the
\* plain format writes the query followed by a newline
EmittedQueries ==
    {output[i].sql : i \in {k \in 1..Len(output) : output[k].fmt = "json"}}
    \cup {SubSeq(output[i].sql, 1, Len(output[i].sql) - 1) :
            i \in {k \in 1..Len(output) : output[k].fmt = "text"}}
ResultBlocks == {i \in 1..Len(output) : output[i].fmt \in {"json", "rows"}}

\* C1: the candidate query is executed against the database at most 3 times
\* for one question.
C1_AtMostThreeExecutions == NumQueries <= 3

\* three executions were made
C1_Witness == NumQueries = 3 /\ Ended

\* C2: the reformat follow-up is sent at most once, only when the first
\* response yields no query (None or the empty text, which "if not sql"
\* treats alike), and never after an execution attempt.
C2_ReformatOnceOnlyAtStart ==
    /\ Cardinality(PromptIdx("reformat")) <= 1
    /\ \A i \in PromptIdx("reformat") :
         /\ trace[1].which = "initial"
         /\ ~Truthy(extract_sql_query(trace[1].out))
         /\ \A j \in QueryIdx : j > i

\* the reformat follow-up was sent, and later a corrective reply held no
\* fenced block
C2_Witness ==
    /\ Ended
    /\ PromptIdx("reformat") # {}
    /\ \E i \in PromptIdx("corrective") :
         extract_sql_query(trace[i].out) = None

\* C3: a run that ends in success has written a query text and one result
\* set; the result set is the one the last execution produced and the query
\* text is the candidate of that execution, extracted from the reply that
\* preceded it.
C3_SuccessEmitsExecutedQuery ==
    Succeeded =>
        LET n == Len(trace) IN
        /\ n >= 2
        /\ trace[n].kind = "query" /\ trace[n].ok
        /\ \A i \in QueryIdx : trace[i].ok => i = n
        /\ EmittedQueries = {trace[n].arg}
        /\ Cardinality(ResultBlocks) = 1
        /\ \A i \in ResultBlocks : output[i].results = trace[n].rows
        /\ trace[n - 1].kind = "prompt"
        /\ trace[n].arg = extract_sql_query(trace[n - 1].out)

\* success after a reformat retry and a corrective retry, with a query that
\* differs from the one that failed
C3_Witness ==
    /\ Succeeded
    /\ PromptIdx("reformat") # {}
    /\ PromptIdx("corrective") # {}
    /\ \E i \in FailedIdx : trace[i].arg # trace[Len(trace)].arg

\* C4: when all 3 executions fail, the run ends with "Failed after 3
\* attempts" and writes neither a query nor a result set.
C4_ExhaustedReportsThree ==
    (Ended /\ Cardinality(FailedIdx) = 3) =>
        /\ error = [kind |-> "Failed after attempts", text |-> None,
                    attempts |-> 3]
        /\ output = <<>>

\* three executions failed
C4_Witness == Ended /\ Cardinality(FailedIdx) = 3

\* C5: the run ends with the extraction failure exactly when neither the
\* first response nor the reply to the reformat follow-up yields a query;
\* then nothing was executed and the error carries the first response; the
\* exhausted-attempts failure comes only after executions.
C5_ExtractionFailure ==
    Ended =>
        LET gen == error.kind = "Failed to generate a response"
            ref == PromptIdx("reformat")
            noFirst == ~Truthy(extract_sql_query(trace[1].out))
            noSecond ==
                /\ ref # {}
                /\ \A i \in ref : ~Truthy(extract_sql_query(trace[i].out))
        IN  /\ gen <=> (noFirst /\ noSecond)
            /\ gen => /\ QueryIdx = {}
                      /\ error.text = trace[1].out
                      /\ output = <<>>
            /\ error.kind = "Failed after attempts" => QueryIdx # {}

\* extraction failed twice, on two different replies
C5_Witness ==
    /\ Ended
    /\ error.kind = "Failed to generate a response"
    /\ response # response2

OneOutcome ==
    \/ /\ error = NoError
       /\ Cardinality(ResultBlocks) = 1
       /\ \A i \in ResultBlocks : output[i].results = results
    \/ /\ error # NoError
       /\ output = <<>>

\* C6: every run terminates, and ends either in success with exactly one
\* result set or in a terminal failure with no output, never both or neither.
C6_TerminatesWithOneOutcome ==
    /\ <>(pc = "done")
    /\ [](pc = "done" => OneOutcome)

\* success at the third execution
C6_Witness == Succeeded /\ NumQueries = 3

\* C9: a corrective prompt is sent only while the attempt budget is not
\* used up: at most 2 per question, each followed by another execution.
C9_CorrectiveOnlyBelowMax ==
    /\ Cardinality(PromptIdx("corrective")) <= 2
    /\ Ended => \A i \in PromptIdx("corrective") :
                   i < Len(trace) /\ trace[i + 1].kind = "query"

\* C10: every execution runs the extraction from the most recent model
\* response (None when that response holds no fenced block), and every
\* failed execution, an absent candidate's included, is counted by the
\* attempt counter, which never exceeds 3.
C10_CandidateFromLatestResponse ==
    /\ \A i \in QueryIdx :
         /\ i > 1
         /\ trace[i - 1].kind = "prompt"
         /\ trace[i].arg = extract_sql_query(trace[i - 1].out)
    /\ pc \in {"execute", "finish", "done"} =>
         attempt = Cardinality(FailedIdx)
    /\ attempt <= 3

\* an execution was made with an absent candidate after an earlier
\* candidate failed, and the budget was used up
C10_Witness ==
    /\ Ended
    /\ attempt = 3
    /\ \E i \in QueryIdx, j \in QueryIdx :
         j < i /\ trace[i].arg = None /\ trace[j].arg # None

----------------------------------------------------------------------------
(* get_example_columns: one table *)

\* L236: if avg < 32
AvgThreshold == 32
\* L243: limit 1000
SampleRows == 1000
\* L248: limit 5
MaxExamples == 5

\* A value of a column: NULL, or a text known by a tag and its length
\* (length("{column}")); the empty string is the text of length 0.
Null == [tag |-> "NULL", len |-> 0]
Txt(tag, n) == [tag |-> tag, len |-> n]
Empty == Txt("", 0)

\* The table has two columns. Its rows are kept as runs: n consecutive rows
\* holding the same values.
ColumnNames == <<"name", "bio">>
Run(n, v1, v2) == [n |-> n, row |-> <<v1, v2>>]

\* The pieces tables are put together from: single rows with NULL, the
\* empty string, a short and a long text; six rows with six different
\* texts; 999 and 1000 equal rows.
Pieces ==
    { <<Run(1, Null, Txt("k", 31))>>,
      <<Run(1, Empty, Null)>>,
      <<Run(1, Txt("a", 1), Empty)>>,
      <<Run(1, Txt("v1", 2), Txt("m", 32)), Run(1, Txt("v2", 2), Txt("m", 32)),
        Run(1, Txt("v3", 2), Txt("m", 32)), Run(1, Txt("v4", 2), Txt("m", 32)),
        Run(1, Txt("v5", 2), Txt("m", 32)), Run(1, Txt("v6", 2), Txt("m", 32))>>,
      <<Run(999, Txt("a", 1), Null)>>,
      <<Run(1, Txt("L", 64), Txt("z", 3))>>,
      <<Run(1000, Txt("M", 64), Txt("y", 5))>> }

MaxPieces == 3

RECURSIVE TablesUpTo(_)
TablesUpTo(n) ==
    IF n = 0 THEN {<<>>}
    ELSE LET prev == TablesUpTo(n - 1)
         IN  prev \cup {t \o piece : t \in prev, piece \in Pieces}

\* select avg(length(c)) from the table: the sum and the count of the
\* lengths of the non-NULL values of every row; NULL (None) without any
RECURSIVE SumCount(_, _)
SumCount(runs, i) ==
    IF runs = <<>> THEN <<0, 0>>
    ELSE LET rest == SumCount(Tail(runs), i)
             v == Head(runs).row[i]
         IN  IF v = Null THEN rest
             ELSE <<rest[1] + Head(runs).n * v.len, rest[2] + Head(runs).n>>

\* select ... limit k: the first k rows
RECURSIVE first_rows(_, _)
first_rows(runs, k) ==
    IF runs = <<>> \/ k <= 0 THEN <<>>
    ELSE IF Head(runs).n >= k
         THEN <<[Head(runs) EXCEPT !.n = k]>>
         ELSE <<Head(runs)>> \o first_rows(Tail(runs), k - Head(runs).n)

\* the average taken over the sampled rows only
avg_length_sampled(runs, i) ==
    LET sc == SumCount(first_rows(runs, SampleRows), i)
    IN  IF sc[2] = 0 THEN <<0, 1>> ELSE sc

\* L225-235: avg(length(c)) over the table, "or 0"; a fraction <<sum, count>>
avg_length(runs, i) ==
    LET sc == SumCount(runs, i)
    IN  IF sc[2] = 0 THEN <<0, 1>> ELSE sc

\* L236: avg < 32
below_threshold(avg) == avg[1] < AvgThreshold * avg[2]

\* select distinct c ... where c is not null and c != '': the values in the
\* order of their first row
RECURSIVE distinct_values(_, _, _)
distinct_values(runs, i, seen) ==
    IF runs = <<>> THEN <<>>
    ELSE LET v == Head(runs).row[i]
         IN  IF v = Null \/ v = Empty \/ v \in seen
             THEN distinct_values(Tail(runs), i, seen)
             ELSE <<v>> \o distinct_values(Tail(runs), i, seen \cup {v})

limit(s, k) == SubSeq(s, 1, IF Len(s) < k THEN Len(s) ELSE k)

\* L237-251
example_values(runs, i) ==
    limit(distinct_values(first_rows(runs, SampleRows), i, {}), MaxExamples)

InitExamples ==
    /\ epc = "start"
    /\ table \in TablesUpTo(MaxPieces)
    /\ column_types \in [1..Len(ColumnNames) -> {"str", "int"}]
    /\ introspectable \in BOOLEAN
    /\ col = 0
    /\ examples = <<>>
    /\ text = <<>> /\ extracted = Unset
    /\ pc = "idle" /\ json_ = FALSE /\ response = None /\ response2 = None
    /\ sql = None /\ attempt = 0 /\ ok = FALSE /\ ex = None
    /\ results = NoRows /\ output = <<>> /\ error = NoError /\ trace = <<>>

\* L215-220: columns_dict, or {} when it raises sqlite3.OperationalError
Introspect ==
    /\ epc = "start"
    /\ IF introspectable
       THEN epc' = "loop" /\ col' = 1
       ELSE epc' = "returned" /\ col' = col
    /\ UNCHANGED <<table, column_types, introspectable, examples>>
    /\ UNCHANGED <<askVars, extractVars>>

\* L221-251: one pass of the for loop
ExamineColumn ==
    /\ epc = "loop"
    /\ col <= Len(column_types)
    /\ examples' =
         IF column_types[col] # "str" THEN examples
         ELSE IF below_threshold(avg_length(table, col))
              THEN examples @@ (ColumnNames[col] :> example_values(table, col))
              ELSE examples
    /\ col' = col + 1
    /\ UNCHANGED <<epc, table, column_types, introspectable>>
    /\ UNCHANGED <<askVars, extractVars>>

\* L252
ReturnExamples ==
    /\ epc = "loop"
    /\ col > Len(column_types)
    /\ epc' = "returned"
    /\ UNCHANGED <<table, column_types, introspectable, col, examples>>
    /\ UNCHANGED <<askVars, extractVars>>

NextExamples == Introspect \/ ExamineColumn \/ ReturnExamples

SpecExamples == InitExamples /\ [][NextExamples]_vars

\* the number of rows before run r, and the sum and count of the lengths of
\* the non-NULL values of column i in all rows
RowsBefore(r) ==
    LET f[k \in 0..Len(table)] ==
            IF k = 0 THEN 0 ELSE f[k - 1] + table[k].n
    IN  f[r - 1]
TotalLength(i) ==
    LET f[k \in 0..Len(table)] ==
            IF k = 0 THEN 0
            ELSE f[k - 1] + (IF table[k].row[i] = Null THEN 0
                             ELSE table[k].n * table[k].row[i].len)
    IN  f[Len(table)]
NonNullRows(i) ==
    LET f[k \in 0..Len(table)] ==
            IF k = 0 THEN 0
            ELSE f[k - 1] + (IF table[k].row[i] = Null THEN 0 ELSE table[k].n)
    IN  f[Len(table)]
ColumnIndex(c) == CHOOSE i \in 1..Len(ColumnNames) : ColumnNames[i] = c

\* C8: a column has an entry only if it is declared text and the average
\* length of its values over all rows (0 when there is none) is below 32;
\* its examples are at most 5, distinct, neither NULL nor empty, and each
\* occurs among the first 1000 rows.
C8_ExampleValues ==
    \A c \in DOMAIN examples :
        LET i == ColumnIndex(c)
            e == examples[c]
        IN  /\ column_types[i] = "str"
            /\ \/ NonNullRows(i) = 0
               \/ TotalLength(i) < 32 * NonNullRows(i)
            /\ Len(e) <= 5
            /\ \A k \in 1..Len(e) : e[k] # Null /\ e[k] # Empty
            /\ \A k, m \in 1..Len(e) : k # m => e[k] # e[m]
            /\ \A k \in 1..Len(e) :
                 \E r \in 1..Len(table) :
                    table[r].row[i] = e[k] /\ RowsBefore(r) < 1000

\* a table of more than 1000 rows: a column with 5 examples out of 6 or more
\* different texts, and a text beyond row 1000 left out
C8_Witness ==
    /\ epc = "returned"
    /\ \E c \in DOMAIN examples :
         LET i == ColumnIndex(c) IN
         /\ Len(examples[c]) = 5
         /\ \E r \in 1..Len(table) :
              /\ RowsBefore(r) >= 1000
              /\ table[r].row[i] \notin {Null, Empty}
              /\ \A k \in 1..5 : examples[c][k] # table[r].row[i]
         /\ \E r \in 1..Len(table) :
              /\ RowsBefore(r) < 1000
              /\ table[r].row[i] \notin {Null, Empty}
              /\ \A k \in 1..5 : examples[c][k] # table[r].row[i]

====
